---- MODULE Spec2Model ----
(***************************************************************************)
(* web3-hooks-react: the ERC20 hooks of src/src/useERC20.ts.               *)
(*                                                                         *)
(* A write hook (useApprove, useTransfer, useTransferFrom) owns one React  *)
(* state cell txn and hands out a trigger fn.  fn calls the contract       *)
(* method and chains                                                       *)
(*        p0 = contract.m(...)   p1 = p0.then(setResult)                   *)
(*        p2 = p1.catch(setErr)                                            *)
(* and returns p2.  The promise reactions run as microtasks, first in      *)
(* first out.  The contract (ethers) is the environment: it settles p0     *)
(* with a transaction or with an arbitrary rejection reason.  The          *)
(* arguments of a call (spender, to, from, amount, owner) are forwarded    *)
(* unchanged to the contract method and are not read by the hooks, so a    *)
(* call is identified by its hook and its position in issue order.         *)
(***************************************************************************)
EXTENDS Integers, Sequences, FiniteSets

\* Bound: contract calls (write triggers and read accessors) issued in a run.
MaxCalls == 2

\* Bound: the numbers handed to asError are 0..MaxNumber.
MaxNumber == 12

\* Bound: hook invocations (renders) in a run of SpecRender.
MaxRenders == 2

----------------------------------------------------------------------------
(* JavaScript values, as far as the hooks can tell them apart.             *)

Val(k, s, n) == [kind |-> k, str |-> s, num |-> n]

Undefined == Val("undefined", "", 0)
Str(s) == Val("string", s, 0)
Num(n) == Val("number", "", n)
PlainObject == Val("object", "", 0)
Symbol == Val("symbol", "", 0)
Null == Val("null", "", 0)
Bool(b) == Val("boolean", b, 0)
\* An object literal; tag tells two of them apart (a nested one, say).
Object(tag) == Val("object", tag, 0)
\* An Error instance with the given message, freshly allocated.
Error(name, m) == Val(name, m, 0)
\* An Error instance that existed before the call; id is its identity.
ErrorObject(name, m, id) == Val(name, m, id)
\* The ContractTransaction produced by the i-th issued call.
Transaction(i) == Val("transaction", "", i)

ErrorKinds == {"Error", "TypeError"}
IsError(v) == v.kind \in ErrorKinds

DigitStr == <<"0", "1", "2", "3", "4", "5", "6", "7", "8", "9">>

RECURSIVE NumberToString(_)
NumberToString(n) ==
    IF n < 10 THEN DigitStr[n + 1]
    ELSE NumberToString(n \div 10) \o DigitStr[(n % 10) + 1]

\* ToString of the ECMAScript specification: a Symbol cannot be converted.
ToStringThrows(v) == v.kind = "symbol"

ToString(v) ==
    CASE v.kind = "string" -> v.str
      [] v.kind = "number" -> NumberToString(v.num)
      [] v.kind = "undefined" -> "undefined"
      [] v.kind = "null" -> "null"
      [] v.kind = "boolean" -> v.str
      [] v.kind = "object" -> "[object Object]"
      [] v.kind = "transaction" -> "[object Object]"
      [] IsError(v) -> v.kind \o ": " \o v.str
      [] OTHER -> ""

\* new Error(e): the message is ToString(e), or empty when e is undefined;
\* the conversion of a Symbol throws a TypeError instead.
Returned(v) == [threw |-> FALSE, val |-> v]
Thrown(v) == [threw |-> TRUE, val |-> v]

NewError(e) ==
    IF e = Undefined THEN Returned(Error("Error", ""))
    ELSE IF ToStringThrows(e)
         THEN Thrown(Error("TypeError", "Cannot convert a Symbol value to a string"))
         ELSE Returned(Error("Error", ToString(e)))

\* An asError that wraps whatever it is given.
asErrorWrapping(e) == NewError(e)

asError(e) == IF IsError(e) THEN Returned(e) ELSE NewError(e)

----------------------------------------------------------------------------
(* Promises and the result container.                                      *)

Pending == [st |-> "pending", val |-> Undefined]
Fulfilled(v) == [st |-> "fulfilled", val |-> v]
Rejected(v) == [st |-> "rejected", val |-> v]

\* TransactionResult: a field that is not set reads as undefined.
Absent == [present |-> FALSE, transaction |-> Undefined, error |-> Undefined]
TransactionResult(tx, err) == [present |-> TRUE, transaction |-> tx, error |-> err]

Hooks == {"useApprove", "useTransfer", "useTransferFrom"}

\* The call sites: one of each write hook, and a second use of useApprove.
Instances == Hooks \cup {"useApprove#2"}

\* A component that calls useERC20 itself, for the read accessors.
Sites == Instances \cup {"useERC20"}

Method(h) ==
    CASE h \in {"useApprove", "useApprove#2"} -> "approve"
      [] h = "useTransfer" -> "transfer"
      [] h = "useTransferFrom" -> "transferFrom"

ReadAccessors == {"name", "symbol", "decimals", "totalSupply", "balanceOf", "allowance"}

\* What the contract may reject a call with.
RejectReasons == {Error("Error", "call reverted"), Str("denied"), Num(404), Symbol}

VARIABLES
    txn,         \* txn[h]: the state cell of hook h's call site
    calls,       \* the write calls in issue order, each with its promise chain
    microtasks,  \* the promise reaction jobs waiting to run, oldest first
    settled,     \* the write calls in the order their p0 settled (history)
    reads,       \* the promises handed out by the read accessors
    contract,    \* contract[s]: the state cell of useERC20 at site s
    render,      \* the latest hook invocation: site, params, how it ended
    renders,     \* how many hook invocations there have been
    probe        \* a value under asError, applied once and again

binding == <<contract, render, renders>>

vars == <<txn, calls, microtasks, settled, reads, contract, render, renders, probe>>

Issued == Len(calls) + Len(reads)

----------------------------------------------------------------------------
(* useERC20: binding the contract.                                         *)

\* useERC20Params, as far as the binder tells them apart.
Ethereums == {"provider", "signer", "garbage"}
Addresses == {"0xTokenA", "0xTokenB"}
Params == [ethereum : Ethereums, contractAddress : Addresses]

\* The parameters every site was first invoked with in Spec.
FirstParams == [ethereum |-> "provider", contractAddress |-> "0xTokenA"]

\* ERC20Abi__factory.connect(address, signerOrProvider): the typed handle,
\* or a thrown error when the library rejects its input.
FactoryThrows(address, signerOrProvider) == signerOrProvider = "garbage"

FactoryConnect(address, signerOrProvider) ==
    [bound |-> TRUE, address |-> address, signerOrProvider |-> signerOrProvider]

\* The state cell of useERC20 before the first invocation.
Unbound == [bound |-> FALSE, address |-> "", signerOrProvider |-> ""]

connect(e, addr) == FactoryConnect(addr, e)

\* A state cell that takes the initial value given on every invocation.
useStateRebinding(stored, initial) == initial

\* useState(initial): the initial value counts on the first invocation only.
useState(stored, initial) == IF stored.bound THEN stored ELSE initial

NoRender ==
    [site |-> "", params |-> [ethereum |-> "", contractAddress |-> ""],
     ended |-> "none"]

Idle ==
    [stage |-> "idle", arg |-> Undefined,
     res |-> Returned(Undefined), again |-> Returned(Undefined)]

\* Every site has been invoked once, with FirstParams.
Init ==
    /\ txn = [h \in Instances |-> Absent]
    /\ calls = <<>>
    /\ microtasks = <<>>
    /\ settled = <<>>
    /\ reads = <<>>
    /\ contract = [s \in Sites |-> connect(FirstParams.ethereum,
                                           FirstParams.contractAddress)]
    /\ render = NoRender
    /\ renders = 0
    /\ probe = Idle

\* A hook invocation that stores a construction failure as a result.
useERC20Catching(s, p) ==
    /\ renders' = renders + 1
    /\ IF FactoryThrows(p.contractAddress, p.ethereum)
       THEN /\ render' = [site |-> s, params |-> p, ended |-> "returned"]
            /\ contract' = contract
            /\ txn' = [h \in Instances |->
                         IF h = s THEN TransactionResult(Undefined, Error("Error", "invalid signer or provider"))
                         ELSE txn[h]]
       ELSE /\ render' = [site |-> s, params |-> p, ended |-> "returned"]
            /\ contract' = [contract EXCEPT ![s] =
                              useState(@, connect(p.ethereum, p.contractAddress))]
            /\ txn' = txn

\* One invocation of the hook at site s with params p (a render of the
\* component).  connect(...) is evaluated on every invocation, as the
\* argument of useState; when it throws, the invocation ends there, before
\* any state cell is read.  The cell txn of a write hook is left as stored.
useERC20(s, p) ==
    /\ renders' = renders + 1
    /\ IF FactoryThrows(p.contractAddress, p.ethereum)
       THEN /\ render' = [site |-> s, params |-> p, ended |-> "threw"]
            /\ contract' = contract
       ELSE /\ render' = [site |-> s, params |-> p, ended |-> "returned"]
            /\ contract' = [contract EXCEPT ![s] =
                              useState(@, connect(p.ethereum, p.contractAddress))]
    /\ txn' = txn


----------------------------------------------------------------------------
(* useContract: the state cell and its two setters.                        *)

\* A setter that merges the new fields into the stored object.
setTxnMerging(prev, next) ==
    [present |-> TRUE,
     transaction |-> IF next.transaction = Undefined THEN prev.transaction
                     ELSE next.transaction,
     error |-> IF next.error = Undefined THEN prev.error ELSE next.error]

\* The setter of useState replaces the stored value.
setTxn(prev, next) == next

\* A setResult that stores its argument under the wrong key.
setResultAsError(prev, tx) == setTxn(prev, TransactionResult(Undefined, tx))

setResult(prev, tx) == setTxn(prev, TransactionResult(tx, Undefined))

\* A setErr that empties the cell when it cannot build the error.
setErrClearing(prev, e) ==
    IF asError(e).threw THEN Absent
    ELSE setTxn(prev, TransactionResult(Undefined, asError(e).val))

\* setErr evaluates asError(e) first; when that throws, setTxn is not reached.
setErr(prev, e) ==
    IF asError(e).threw THEN prev
    ELSE setTxn(prev, TransactionResult(Undefined, asError(e).val))

----------------------------------------------------------------------------
(* The trigger of a write hook.                                            *)

\* What fn hands back to its caller: the promise p2 of the new call.
\* A call also records how many settlements preceded it (seen), whether
\* every reaction of them had run by then (quiet) and how often it has
\* called setTxn (sets), and which bound contract its method belongs to
\* (target) after how many hook invocations (after); nothing reads these
\* but the properties.
fnReturn(i) == [kind |-> "promise", call |-> i]

NewCall(h) ==
    [hook |-> h, method |-> Method(h),
     p0 |-> Pending, p1 |-> Pending, p2 |-> Pending,
     target |-> contract[h], after |-> renders,
     sets |-> 0, seen |-> Len(settled), quiet |-> (microtasks = <<>>),
     returned |-> fnReturn(Len(calls) + 1)]

\* A trigger that clears the previous result when it is invoked.
fnClearing(h) ==
    /\ Issued < MaxCalls
    /\ contract[h].bound
    /\ calls' = Append(calls, NewCall(h))
    /\ txn' = [txn EXCEPT ![h] = Absent]
    /\ UNCHANGED <<microtasks, settled, reads, binding, probe>>

fn(h) ==
    /\ Issued < MaxCalls
    /\ contract[h].bound
    /\ calls' = Append(calls, NewCall(h))
    /\ UNCHANGED <<txn, microtasks, settled, reads, binding, probe>>

\* The contract settles the promise of call i; the reaction of
\* p0.then(setResult) is queued.
SettleCall(i, outcome) ==
    /\ calls[i].p0.st = "pending"
    /\ calls' = [calls EXCEPT ![i].p0 = outcome]
    /\ microtasks' = Append(microtasks, [call |-> i, job |-> "then"])
    /\ settled' = Append(settled, i)
    /\ UNCHANGED <<txn, reads, binding, probe>>

Resolve(i) == SettleCall(i, Fulfilled(Transaction(i)))

Reject(i, r) == SettleCall(i, Rejected(r))

\* A reaction whose setResult writes one cell per hook function, shared by
\* every call site of that hook.
ThenJobShared(i) ==
    LET c == calls[i] IN
    /\ microtasks # <<>>
    /\ Head(microtasks) = [call |-> i, job |-> "then"]
    /\ IF c.p0.st = "fulfilled"
       THEN /\ txn' = [h \in Instances |->
                         IF Method(h) = c.method THEN setResult(txn[h], c.p0.val)
                         ELSE txn[h]]
            /\ calls' = [calls EXCEPT ![i].p1 = Fulfilled(Undefined),
                                      ![i].sets = @ + 1]
       ELSE /\ txn' = txn
            /\ calls' = [calls EXCEPT ![i].p1 = Rejected(c.p0.val)]
    /\ microtasks' = Append(Tail(microtasks), [call |-> i, job |-> "catch"])
    /\ UNCHANGED <<settled, reads, binding, probe>>

\* The reaction of p0.then(setResult): on fulfilment setResult runs and p1
\* is fulfilled with its (undefined) return value; a rejection passes through.
ThenJob(i) ==
    LET c == calls[i] IN
    /\ microtasks # <<>>
    /\ Head(microtasks) = [call |-> i, job |-> "then"]
    /\ IF c.p0.st = "fulfilled"
       THEN /\ txn' = [txn EXCEPT ![c.hook] = setResult(@, c.p0.val)]
            /\ calls' = [calls EXCEPT ![i].p1 = Fulfilled(Undefined),
                                      ![i].sets = @ + 1]
       ELSE /\ txn' = txn
            /\ calls' = [calls EXCEPT ![i].p1 = Rejected(c.p0.val)]
    /\ microtasks' = Append(Tail(microtasks), [call |-> i, job |-> "catch"])
    /\ UNCHANGED <<settled, reads, binding, probe>>

\* The reaction of p1.catch(setErr): a fulfilment passes through; on
\* rejection setErr runs, and p2 is rejected when setErr throws.
CatchJob(i) ==
    LET c == calls[i] IN
    /\ microtasks # <<>>
    /\ Head(microtasks) = [call |-> i, job |-> "catch"]
    /\ IF c.p1.st = "fulfilled"
       THEN /\ txn' = txn
            /\ calls' = [calls EXCEPT ![i].p2 = Fulfilled(c.p1.val)]
       ELSE /\ txn' = [txn EXCEPT ![c.hook] = setErr(@, c.p1.val)]
            /\ calls' = [calls EXCEPT
                           ![i].p2 = IF asError(c.p1.val).threw
                                     THEN Rejected(asError(c.p1.val).val)
                                     ELSE Fulfilled(Undefined),
                           ![i].sets = IF asError(c.p1.val).threw THEN @ ELSE @ + 1]
    /\ microtasks' = Tail(microtasks)
    /\ UNCHANGED <<settled, reads, binding, probe>>

----------------------------------------------------------------------------
(* The read accessors of useERC20: the contract's own methods.             *)

\* What a read accessor resolves with.
ReadValue(a) ==
    CASE a \in {"name", "symbol"} -> Str("TKN")
      [] a = "decimals" -> Num(18)
      [] OTHER -> Num(1000)

\* The accessor is a method of the contract bound at the useERC20 site; the
\* caller gets the contract's own promise p0.  settledWith keeps what the
\* contract settled it with, for the properties.
ReadCall(a) ==
    /\ Issued < MaxCalls
    /\ contract["useERC20"].bound
    /\ reads' = Append(reads, [accessor |-> a, p0 |-> Pending,
                               settledWith |-> Pending,
                               target |-> contract["useERC20"]])
    /\ UNCHANGED <<txn, calls, microtasks, settled, binding, probe>>

\* A read accessor wired to the result-capturing continuation of useApprove.
ReadSettleCapturing(k, outcome) ==
    /\ reads[k].p0.st = "pending"
    /\ reads' = [reads EXCEPT ![k].p0 = outcome, ![k].settledWith = outcome]
    /\ txn' = [txn EXCEPT !["useApprove"] =
                  IF outcome.st = "fulfilled" THEN setResult(@, outcome.val)
                  ELSE setErr(@, outcome.val)]
    /\ UNCHANGED <<calls, microtasks, settled, binding, probe>>

\* A read accessor that passes a rejection reason through asError.
ReadSettleNormalizing(k, outcome) ==
    /\ reads[k].p0.st = "pending"
    /\ reads' = [reads EXCEPT
                   ![k].p0 = IF outcome.st = "rejected" /\ ~asError(outcome.val).threw
                             THEN Rejected(asError(outcome.val).val)
                             ELSE outcome,
                   ![k].settledWith = outcome]
    /\ UNCHANGED <<txn, calls, microtasks, settled, binding, probe>>

ReadSettle(k, outcome) ==
    /\ reads[k].p0.st = "pending"
    /\ reads' = [reads EXCEPT ![k].p0 = outcome, ![k].settledWith = outcome]
    /\ UNCHANGED <<txn, calls, microtasks, settled, binding, probe>>

ReadResolve(k) == ReadSettle(k, Fulfilled(ReadValue(reads[k].accessor)))

ReadReject(k, r) == ReadSettle(k, Rejected(r))

----------------------------------------------------------------------------

Next ==
    \/ \E h \in Hooks : fn(h)
    \/ \E i \in 1..Len(calls) : Resolve(i)
    \/ \E i \in 1..Len(calls), r \in RejectReasons : Reject(i, r)
    \/ \E i \in 1..Len(calls) : ThenJob(i)
    \/ \E i \in 1..Len(calls) : CatchJob(i)
    \/ \E a \in ReadAccessors : ReadCall(a)
    \/ \E k \in 1..Len(reads) : ReadResolve(k)
    \/ \E k \in 1..Len(reads), r \in RejectReasons : ReadReject(k, r)

Spec == Init /\ [][Next]_vars

\* The write hooks at every call site, two of them uses of useApprove.
NextSites ==
    \/ \E h \in Instances : fn(h)
    \/ \E i \in 1..Len(calls) : Resolve(i)
    \/ \E i \in 1..Len(calls), r \in RejectReasons : Reject(i, r)
    \/ \E i \in 1..Len(calls) : ThenJob(i)
    \/ \E i \in 1..Len(calls) : CatchJob(i)

SpecSites == Init /\ [][NextSites]_vars

----------------------------------------------------------------------------
(* Hook invocations: first and later renders, with any params.             *)

InitRender ==
    /\ txn = [h \in Instances |-> Absent]
    /\ calls = <<>>
    /\ microtasks = <<>>
    /\ settled = <<>>
    /\ reads = <<>>
    /\ contract = [s \in Sites |-> Unbound]
    /\ render = NoRender
    /\ renders = 0
    /\ probe = Idle

Render(s, p) ==
    /\ renders < MaxRenders
    /\ useERC20(s, p)
    /\ UNCHANGED <<calls, microtasks, settled, reads, probe>>

\* One call site of each hook.
NextRender ==
    \/ \E s \in Hooks \cup {"useERC20"}, p \in Params : Render(s, p)
    \/ \E h \in Hooks : fn(h)
    \/ \E a \in ReadAccessors : ReadCall(a)

SpecRender == InitRender /\ [][NextRender]_vars

----------------------------------------------------------------------------
(* asError on its own: a value, asError of it, and asError of the result.  *)

Messages == {"", "call reverted", "denied"}

Values ==
    {Undefined, Null, Bool("true"), Bool("false"), Symbol,
     Object(""), Object("nested"), Transaction(1)}
      \cup {Num(n) : n \in 0..MaxNumber}
      \cup {Str(m) : m \in Messages \cup {"404"}}
      \cup {ErrorObject(k, m, id) : k \in ErrorKinds, m \in Messages, id \in 1..2}

InitAsError ==
    /\ txn = [h \in Instances |-> Absent]
    /\ calls = <<>>
    /\ microtasks = <<>>
    /\ settled = <<>>
    /\ reads = <<>>
    /\ contract = [s \in Sites |-> Unbound]
    /\ render = NoRender
    /\ renders = 0
    /\ probe \in {[Idle EXCEPT !.stage = "given", !.arg = x] : x \in Values}

\* asError(arg).
asErrorOnce ==
    /\ probe.stage = "given"
    /\ probe' = [probe EXCEPT !.stage = "once", !.res = asError(probe.arg)]
    /\ UNCHANGED <<txn, calls, microtasks, settled, reads, binding>>

\* asError(asError(arg)): an exception of the inner call ends the outer one.
asErrorTwice ==
    /\ probe.stage = "once"
    /\ probe' = [probe EXCEPT !.stage = "twice",
                              !.again = IF probe.res.threw THEN probe.res
                                        ELSE asError(probe.res.val)]
    /\ UNCHANGED <<txn, calls, microtasks, settled, reads, binding>>

NextAsError == asErrorOnce \/ asErrorTwice

SpecAsError == InitAsError /\ [][NextAsError]_vars

----------------------------------------------------------------------------
(* Vocabulary of the properties.                                           *)

Calls == 1..Len(calls)

\* Position of call i in the order of settlement (0: not settled yet).
RECURSIVE IndexIn(_, _)
IndexIn(seq, x) ==
    IF seq = <<>> THEN 0
    ELSE IF seq[Len(seq)] = x THEN Len(seq)
         ELSE IndexIn(SubSeq(seq, 1, Len(seq) - 1), x)

SettledAt(i) == IndexIn(settled, i)

\* The whole chain of call i has run: p2 is settled.
Processed(i) == calls[i].p2.st # "pending"

\* The step in which the reaction of p0.then(setResult) of call i runs.
ThenStep(i) == calls[i].p1.st = "pending" /\ calls'[i].p1.st # "pending"

\* The step in which the reaction of p1.catch(setErr) of call i runs.
CatchStep(i) == calls[i].p2.st = "pending" /\ calls'[i].p2.st # "pending"

\* The result the outcome of call i stands for.
OutcomeResult(i) ==
    IF calls[i].p0.st = "fulfilled"
    THEN TransactionResult(calls[i].p0.val, Undefined)
    ELSE TransactionResult(Undefined, asError(calls[i].p0.val).val)

\* Exactly one of the two fields of a result is populated.
OneField(r) == (r.transaction = Undefined) # (r.error = Undefined)

----------------------------------------------------------------------------
\* C1: when the contract call of a write hook resolves with transaction T,
\* the step that processes the settlement leaves the hook's result equal to
\* {transaction: T}, with no error field.
C1_ResolveSetsTransaction ==
    [][\A i \in Calls :
         (ThenStep(i) /\ calls[i].p0.st = "fulfilled")
            => txn'[calls[i].hook] = TransactionResult(Transaction(i), Undefined)]_vars

C1_Witness ==
    \E i \in Calls :
        /\ calls[i].p0 = Fulfilled(Transaction(i))
        /\ Processed(i)
        /\ txn[calls[i].hook] = TransactionResult(Transaction(i), Undefined)

\* C2: when the contract call of a write hook rejects with reason R, the
\* step that processes the settlement leaves the hook's result equal to
\* {error: asError(R)}, with no transaction field.
C2_RejectSetsError ==
    [][\A i \in Calls :
         (CatchStep(i) /\ calls[i].p0.st = "rejected")
            => /\ ~asError(calls[i].p0.val).threw
               /\ txn'[calls[i].hook]
                    = TransactionResult(Undefined, asError(calls[i].p0.val).val)]_vars

\* C3: a result is absent or has exactly one of transaction and error
\* populated; no settlement leaves a field of the previous result behind.
C3_ExactlyOneField ==
    \A h \in Hooks :
        IF txn[h].present THEN OneField(txn[h]) ELSE txn[h] = Absent

C3_Witness ==
    \E i, j \in Calls :
        /\ i # j /\ calls[i].hook = calls[j].hook
        /\ calls[i].p0.st = "fulfilled" /\ calls[i].sets = 1
        /\ calls[j].p0.st = "rejected" /\ calls[j].sets = 1
        /\ SettledAt(i) < SettledAt(j)
        /\ txn[calls[i].hook].error # Undefined
        /\ txn[calls[i].hook].transaction = Undefined

\* C4: of two calls A, B of one call site, A issued first and B settled
\* first, the result after both have been processed is A's outcome.
C4_LastSettledWins ==
    \A a, b \in Calls :
        ( /\ a < b /\ calls[a].hook = calls[b].hook
          /\ SettledAt(b) > 0 /\ SettledAt(b) < SettledAt(a)
          /\ \A c \in Calls : calls[c].hook = calls[a].hook
                                 => Processed(c) /\ SettledAt(c) <= SettledAt(a) )
            => /\ calls[a].p0.st = "rejected" => ~asError(calls[a].p0.val).threw
               /\ txn[calls[a].hook] = OutcomeResult(a)

\* C5: invoking a trigger leaves every result as it was; a result changes
\* only in a step that runs a reaction of a settled call of that hook.
C5_InvokeKeepsResult ==
    [][ /\ Len(calls') # Len(calls) => txn' = txn
        /\ \A h \in Hooks :
             txn'[h] # txn[h]
               => \E i \in Calls :
                    /\ calls[i].hook = h
                    /\ calls[i].p0.st # "pending"
                    /\ ThenStep(i) \/ CatchStep(i) ]_vars

C5_Witness ==
    \E i, j \in Calls :
        /\ i < j /\ calls[i].hook = calls[j].hook
        /\ Processed(i) /\ calls[i].sets = 1
        /\ calls[j].seen >= SettledAt(i) /\ calls[j].quiet
        /\ calls[j].p0.st = "pending"
        /\ txn[calls[i].hook] = OutcomeResult(i)

\* C6: no failure of a write call is surfaced as a rejected promise; every
\* rejected call, once processed, has stored an error value in the result.
C6_FailuresOnlyInResult ==
    \A i \in Calls :
        /\ calls[i].p2.st # "rejected"
        /\ (calls[i].p0.st = "rejected" /\ Processed(i)) => calls[i].sets = 1

\* C7: the trigger returns void, not a promise tied to the settlement.
C7_TriggerReturnsVoid ==
    \A i \in Calls : calls[i].returned.kind = "void"

\* C8: of two sequential calls of one call site (the second issued after the
\* first has settled and its reactions have run), the result once the
\* second is processed is the second's outcome.
C8_SecondCallOverwrites ==
    \A a, b \in Calls :
        ( /\ a < b /\ calls[a].hook = calls[b].hook
          /\ SettledAt(a) > 0 /\ SettledAt(a) <= calls[b].seen /\ calls[b].quiet
          /\ Processed(b)
          /\ \A c \in Calls :
                (calls[c].hook = calls[b].hook /\ c # b)
                   => c < b /\ SettledAt(c) > 0 /\ SettledAt(c) <= calls[b].seen )
            => /\ calls[b].p0.st = "rejected" => ~asError(calls[b].p0.val).threw
               /\ txn[calls[b].hook] = OutcomeResult(b)

\* C9: every call whose promise settled has, once processed, updated the
\* result exactly once.
C9_OneUpdatePerCall ==
    \A i \in Calls :
        /\ calls[i].sets <= 1
        /\ Processed(i) => calls[i].sets = 1

\* C10: a step of a read accessor (a call, a resolution, a rejection) leaves
\* the result of every write hook as it was.
C10_ReadsKeepResult ==
    [][reads' # reads => txn' = txn]_vars

C10_Witness ==
    /\ \E k \in 1..Len(reads) : reads[k].p0.st = "rejected"
    /\ \E i \in Calls : Processed(i) /\ txn[calls[i].hook] = OutcomeResult(i)
                           /\ calls[i].sets = 1

----------------------------------------------------------------------------
\* C11: a step of a call of one call site (its invocation, its settlement,
\* a reaction of it) leaves the result of every other call site as it was.
C11_OwnContainer ==
    [][\A i \in 1..Len(calls') :
         (i > Len(calls) \/ calls'[i] # calls[i])
            => \A h \in Instances \ {calls'[i].hook} : txn'[h] = txn[h]]_vars

C11_Witness ==
    \E i \in Calls :
        /\ calls[i].hook = "useApprove#2"
        /\ Processed(i) /\ calls[i].sets = 1
        /\ txn["useApprove#2"] = OutcomeResult(i)
        /\ \A h \in Instances \ {"useApprove#2"} : txn[h] = Absent

----------------------------------------------------------------------------
\* C14: a hook invocation whose contract construction fails ends by
\* throwing to its caller, and stores nothing: every result and every bound
\* contract is as before.
C14_ConstructionFailureThrows ==
    [][(renders' # renders
          /\ FactoryThrows(render'.params.contractAddress, render'.params.ethereum))
         => /\ render'.ended = "threw"
            /\ txn' = txn
            /\ contract' = contract]_vars

C14_Witness ==
    /\ render.ended = "threw"
    /\ render.site \in Instances
    /\ ~contract[render.site].bound
    /\ txn[render.site] = Absent

\* C15: the promise a read accessor handed out is rejected exactly when the
\* contract rejected the query, and with the very reason the contract gave.
C15_ReadRejectionUnchanged ==
    \A k \in 1..Len(reads) :
        reads[k].settledWith.st = "rejected" => reads[k].p0 = reads[k].settledWith

C15_Witness ==
    \E k \in 1..Len(reads) :
        /\ reads[k].settledWith = Rejected(Str("denied"))
        /\ reads[k].p0 = Rejected(Str("denied"))
        /\ \A h \in Instances : txn[h] = Absent

\* C17: the contract a site is bound to is the one built on its first
\* invocation; later invocations, whatever their params, never replace it,
\* and every trigger and accessor calls a method of that contract.
C17_FirstBindingKept ==
    [][ /\ \A s \in Sites :
             IF contract[s].bound THEN contract'[s] = contract[s]
             ELSE contract'[s].bound
                    => /\ render'.site = s
                       /\ contract'[s] = FactoryConnect(render'.params.contractAddress,
                                                        render'.params.ethereum)
        /\ \A i \in Calls : calls'[i].target = contract'[calls[i].hook]
        /\ \A k \in 1..Len(reads) : reads'[k].target = contract'["useERC20"] ]_vars

C17_Witness ==
    \E i \in Calls :
        /\ calls[i].after = renders
        /\ render.site = calls[i].hook /\ render.ended = "returned"
        /\ calls[i].target.bound
        /\ calls[i].target # FactoryConnect(render.params.contractAddress,
                                            render.params.ethereum)

----------------------------------------------------------------------------
\* The payload of an Error: its message, as a value.
Payload(err) == Str(err.str)

\* C12: asError of an Error is that Error itself, and asError applied to
\* its own result changes nothing.
C12_ErrorIdentityIdempotent ==
    /\ (probe.stage \in {"once", "twice"} /\ IsError(probe.arg))
          => probe.res = Returned(probe.arg)
    /\ probe.stage = "twice" => probe.again = probe.res

C12_Witness ==
    /\ probe.stage = "twice"
    /\ IsError(probe.arg) /\ probe.arg.num > 0
    /\ probe.again = Returned(probe.arg)

\* C13: asError of a value that is not an Error returns an Error whose
\* payload equals that value.
C13_PayloadEqualsInput ==
    (probe.stage \in {"once", "twice"} /\ ~IsError(probe.arg))
       => /\ ~probe.res.threw
          /\ IsError(probe.res.val)
          /\ Payload(probe.res.val) = probe.arg

\* C16: asError of a value that is neither an object nor a string does not
\* throw; it returns an Error.
C16_NeverThrows ==
    (probe.stage \in {"once", "twice"}
       /\ probe.arg.kind \notin ({"object", "transaction", "string"} \cup ErrorKinds))
       => ~probe.res.threw /\ IsError(probe.res.val)

\* C18: a result that is populated stays populated, and a populated result
\* is the outcome of a call of that site that has settled.
C18_NeverAbsentAgain ==
    [][\A h \in Instances :
         /\ txn[h].present => txn'[h].present
         /\ txn'[h].present
              => \E i \in Calls :
                   /\ calls[i].hook = h
                   /\ calls[i].p0.st # "pending"
                   /\ txn'[h] = OutcomeResult(i)]_vars

C18_Witness ==
    \E i, j \in Calls :
        /\ calls[i].hook = calls[j].hook
        /\ Processed(i) /\ calls[i].sets = 1
        /\ SettledAt(i) < SettledAt(j)
        /\ Processed(j) /\ calls[j].p0 = Rejected(Symbol)
        /\ txn[calls[i].hook] = OutcomeResult(i)

====
